---- MODULE Spec2Model ----
(***************************************************************************)
(* State-machine model of semantic_search.py: the orchestration loop of    *)
(* the main thread (initial submission, wait FIRST_COMPLETED, drain,       *)
(* refill, final report, error handler) and the ThreadPoolExecutor's       *)
(* worker threads running process_line.                                    *)
(*                                                                         *)
(* Input lines are numbered 1..fileLines; a future is identified by the    *)
(* number of the line it was submitted for.  Latencies are whole seconds.  *)
(* The engine's response is opaque: it is assumed to be well-formed JSON   *)
(* with a RESOLVED_ENTITIES list, so only the latency and the record id of *)
(* a result are kept.                                                      *)
(***************************************************************************)
EXTENDS Integers, Sequences, FiniteSets, TLC

\* ---------------------------------------------------------------- bounds
MaxWorkers == 2
MaxLines == 3
MaxLatency == 1
MaxHangLines == 5
MaxCount == 101
MaxSmallCount == 21
MinBigCount == 99
MaxStride == 2
MaxReportLatency == 29
MaxOffset == 2
MaxMissingKeys == 1
MaxFtypes == 2
MaxAttrs == 1
MaxFboms == 1
MaxEntries == 2
MaxRows == 3
MaxIntervals == 2
MaxLead == 1

\* ------------------------------------------------------ program constants
q_multiple == 2
INTERVAL == 1000
LoadPoolSize == 20

VARIABLES
  max_workers,   \* executor._max_workers (SENZING_THREADS_PER_PROCESS)
  fileLines,     \* number of lines of fileToProcess
  fpPos,         \* number of lines already read from fp
  futState,      \* line -> state of the future submitted for it
  futResult,     \* line -> latency returned by process_line (result[0])
  workQueue,     \* the executor's FIFO work queue
  worker,        \* worker thread -> the line it is running, 0 when idle
  conn,          \* worker thread -> its thread-local data.conn, 0 when unset
  connsOpened,   \* number of connections get_connection has returned
  futures,       \* the orchestration loop's dict of outstanding futures
  done,          \* the done set of the current wake-up
  pc,            \* position of the main thread
  count, timeTot, timeMin, timeMax, timesAll, numLines,
  reports,       \* number of periodic reports printed
  submitted,     \* the calls of executor.submit, in order
  logged,        \* lines whose failure process_line printed to stderr
  report,        \* what the final report printed
  exitStatus,    \* the process's exit status once pc = "exited"
  hung,          \* the line whose unit never returns, 0 when there is none
  args_dry_run,         \* enable_semantic_candidates: --dry-run was given
  store,                \* the engine's configuration store
  calls,                \* the configuration manager calls made, in order
  default_config_id,    \* main's default_config_id, 0 before it is read
  current_config_json,  \* the exported configuration
  new_config_json,      \* what create_name_sem_key_feature handed back
  new_config_id,        \* main's new_config_id, 0 before register_config
  record,               \* process_line: the record parsed from the line
  rows,                 \* what the similarity lookup returns for each name
  searched,             \* what process_line handed to search_by_attributes
  records_left,         \* semantic_load: the shared counter
  mainReg,              \* the value the main thread read for "records_left += 1"
  regs,                 \* per worker, the value read for "records_left -= 1"
  connFailed            \* lines whose unit could not open its connection

\* Variables the search program's steps leave alone.
enableVars == <<args_dry_run, store, calls, default_config_id,
                current_config_json, new_config_json, new_config_id>>

augmentVars == <<record, rows, searched>>

loadVars == <<records_left, mainReg, regs, connFailed>>

others == <<hung, enableVars, augmentVars, loadVars>>

vars == <<max_workers, fileLines, fpPos, futState, futResult, workQueue,
          worker, conn, connsOpened, futures, done, pc, count, timeTot,
          timeMin, timeMax, timesAll, numLines, reports, submitted, logged,
          report, exitStatus, others>>

Lines == 1..MaxLines
Threads == 1..MaxWorkers
Latencies == 0..MaxLatency

Min(a, b) == IF a < b THEN a ELSE b
MaxOfLast(a, b) == b

Max(a, b) == IF a > b THEN a ELSE b

\* Nothing printed yet: -1 stands for "not printed".
NoReport == [printed |-> FALSE, under |-> -1, longest |-> -1, longestId |-> -1,
             p99 |-> -1, p95 |-> -1, p90 |-> -1]

\* enable_semantic_candidates has not run.
EnableIdle ==
  /\ args_dry_run = FALSE
  /\ store = [default |-> 0, configs |-> <<>>]
  /\ calls = <<>>
  /\ default_config_id = 0
  /\ current_config_json = [keys |-> {}, CFG_FTYPE |-> <<>>, CFG_ATTR |-> <<>>, CFG_FBOM |-> <<>>]
  /\ new_config_json = [kind |-> "not called", config |-> [keys |-> {}, CFG_FTYPE |-> <<>>, CFG_ATTR |-> <<>>, CFG_FBOM |-> <<>>]]
  /\ new_config_id = 0

\* No worker is augmenting a record.
AugmentIdle ==
  /\ record = <<>>
  /\ rows = <<>>
  /\ searched = [sent |-> FALSE, record |-> <<>>, attached |-> FALSE, block |-> [RECORDS |-> <<>>]]

\* A worker's register when it holds no value of records_left; it is {v}
\* when it holds v.
NoReg == {}

\* semantic_load has not run.
LoadIdle ==
  /\ records_left = 0
  /\ mainReg = 0
  /\ regs = <<>>
  /\ connFailed = {}

Init ==
  /\ EnableIdle
  /\ LoadIdle
  /\ AugmentIdle
  /\ max_workers \in 1..MaxWorkers
  /\ fileLines \in 0..MaxLines
  /\ fpPos = 0
  /\ futState = [l \in Lines |-> "none"]
  /\ futResult = [l \in Lines |-> -1]
  /\ workQueue = <<>>
  /\ worker = [w \in Threads |-> 0]
  /\ conn = [w \in Threads |-> 0]
  /\ connsOpened = 0
  /\ futures = {}
  /\ done = {}
  /\ pc = "start"
  /\ count = 0 /\ timeTot = 0 /\ timeMin = 0 /\ timeMax = 0
  /\ timesAll = <<>>
  /\ numLines = 0
  /\ reports = 0
  /\ submitted = <<>>
  /\ logged = {}
  /\ report = NoReport
  /\ exitStatus = 0
  /\ hung = 0

\* The same start when the environment may let one unit hang: the engine
\* call or the query of line hung never returns and nothing times it out.
HangInit ==
  /\ EnableIdle
  /\ LoadIdle
  /\ AugmentIdle
  /\ max_workers \in 1..MaxWorkers
  /\ fileLines \in 0..MaxHangLines
  /\ fpPos = 0
  /\ futState = [l \in 1..MaxHangLines |-> "none"]
  /\ futResult = [l \in 1..MaxHangLines |-> -1]
  /\ workQueue = <<>>
  /\ worker = [w \in Threads |-> 0]
  /\ conn = [w \in Threads |-> 0]
  /\ connsOpened = 0
  /\ futures = {}
  /\ done = {}
  /\ pc = "start"
  /\ count = 0 /\ timeTot = 0 /\ timeMin = 0 /\ timeMax = 0
  /\ timesAll = <<>>
  /\ numLines = 0
  /\ reports = 0
  /\ submitted = <<>>
  /\ logged = {}
  /\ report = NoReport
  /\ exitStatus = 0
  /\ hung \in 0..fileLines

\* ------------------------------------------------------------- executor

\* The threads of ThreadPoolExecutor(max_workers).
PoolThreads == 1..max_workers

\* A worker thread takes the next work item when it is idle.
WorkerStartNoIdleCheck(w) ==
  /\ w \in PoolThreads
  /\ workQueue # <<>>
  /\ worker' = [worker EXCEPT ![w] = Head(workQueue)]
  /\ workQueue' = Tail(workQueue)
  /\ futState' = [futState EXCEPT ![Head(workQueue)] = "running"]
  /\ UNCHANGED <<others, max_workers, fileLines, fpPos, futResult, conn, connsOpened, futures, done,
                 pc, count, timeTot, timeMin, timeMax, timesAll, numLines,
                 reports, submitted, logged, report, exitStatus>>

WorkerStart(w) ==
  /\ w \in PoolThreads
  /\ worker[w] = 0
  /\ workQueue # <<>>
  /\ worker' = [worker EXCEPT ![w] = Head(workQueue)]
  /\ workQueue' = Tail(workQueue)
  /\ futState' = [futState EXCEPT ![Head(workQueue)] = "running"]
  /\ UNCHANGED <<others, max_workers, fileLines, fpPos, futResult, conn, connsOpened, futures, done,
                 pc, count, timeTot, timeMin, timeMax, timesAll, numLines,
                 reports, submitted, logged, report, exitStatus>>

\* hasattr(data, 'conn') in worker thread w: data is threading.local().
HasConnNever(w) == FALSE

HasConn(w) == conn[w] # 0

\* process_line on worker w: the thread-local connection is opened on first
\* use; any exception (connection, JSON, embedding, lookup, search) is
\* logged with the line and re-raised, which fails the future; otherwise
\* the future's result is (latency, RECORD_ID, response).  The unit of the
\* hung line never returns.
process_line(w) ==
  /\ w \in PoolThreads
  /\ worker[w] # 0
  /\ worker[w] # hung
  /\ LET l == worker[w] IN
     \E connected \in BOOLEAN, ok \in BOOLEAN, t \in Latencies :
        /\ HasConn(w) => connected
        /\ IF ~HasConn(w) /\ connected
             THEN /\ conn' = [conn EXCEPT ![w] = connsOpened + 1]
                  /\ connsOpened' = connsOpened + 1
             ELSE UNCHANGED <<conn, connsOpened>>
        /\ IF connected /\ ok
             THEN /\ futState' = [futState EXCEPT ![l] = "finished"]
                  /\ futResult' = [futResult EXCEPT ![l] = t]
                  /\ logged' = logged
             ELSE /\ t = 0
                  /\ futState' = [futState EXCEPT ![l] = "failed"]
                  /\ futResult' = futResult
                  /\ logged' = logged \cup {l}
  /\ worker' = [worker EXCEPT ![w] = 0]
  /\ UNCHANGED <<others, max_workers, fileLines, fpPos, workQueue, futures,
                 done, pc, count, timeTot, timeMin, timeMax, timesAll,
                 numLines, reports, submitted, report, exitStatus>>

\* ---------------------------------------------------------- main thread

\* executor.submit(process_line, g2, line, url) for line l: a pending future
\* is created and its work item is appended to the executor's queue.
Submit(l) ==
  /\ workQueue' = Append(workQueue, l)
  /\ futState' = [futState EXCEPT ![l] = "pending"]
  /\ submitted' = Append(submitted, l)

\* Number of lines the initial dict comprehension takes with islice.
InitialWindowWide == (q_multiple + 1) * max_workers

InitialWindow == q_multiple * max_workers

\* fp.readline() / next(fp): the next line's number, 0 at end of file.
ReadLineRewind == IF fpPos < fileLines THEN 1 ELSE 0

ReadLineNoRefill == IF fpPos < fileLines /\ pc = "start" THEN fpPos + 1 ELSE 0

ReadLine == IF fpPos < fileLines THEN fpPos + 1 ELSE 0

\* One iteration of the dict comprehension over islice(fp, q_multiple * W);
\* when islice is exhausted the dict is bound to futures and the while
\* condition is evaluated.
InitialSubmit ==
  /\ pc = "start"
  /\ IF Len(submitted) < InitialWindow /\ ReadLine # 0
       THEN /\ Submit(ReadLine)
            /\ fpPos' = fpPos + 1
            /\ futures' = futures \cup {ReadLine}
            /\ pc' = pc
       ELSE /\ pc' = IF futures = {} THEN "final" ELSE "wait"
            /\ UNCHANGED <<workQueue, futState, submitted, fpPos, futures>>
  /\ UNCHANGED <<others, max_workers, fileLines, futResult, worker, conn, connsOpened, done, count,
                 timeTot, timeMin, timeMax, timesAll, numLines, reports,
                 logged, report, exitStatus>>

IsDone(l) == futState[l] \in {"finished", "failed", "cancelled"}

\* concurrent.futures.wait(futures, return_when=FIRST_COMPLETED): blocks until
\* at least one future of the dict is done, returns all that are done.
Wait ==
  /\ pc = "wait"
  /\ \E l \in futures : IsDone(l)
  /\ done' = {l \in futures : IsDone(l)}
  /\ pc' = "drain"
  /\ UNCHANGED <<others, max_workers, fileLines, fpPos, futState, futResult, workQueue,
                 worker, conn, connsOpened, futures, count, timeTot, timeMin, timeMax,
                 timesAll, numLines, reports, submitted, logged, report,
                 exitStatus>>

\* The running minimum as the loop updates it.
UpdateMin(tm, t) == IF tm = 0 THEN t ELSE Min(tm, t)

DrainOneReportingBeforeCounting ==
  /\ pc = "drain"
  /\ \E fut \in done :
       IF futState[fut] # "finished"
         THEN /\ pc' = "except"
              /\ UNCHANGED <<fpPos, futState, workQueue, futures, done, count,
                             timeTot, timeMin, timeMax, timesAll, numLines,
                             reports, submitted>>
         ELSE LET t == futResult[fut]
                  line == ReadLine
                  left == (futures \ {fut}) \cup (IF line # 0 THEN {line} ELSE {})
              IN /\ count' = count + 1
                 /\ timesAll' = Append(timesAll, <<t, fut>>)
                 /\ timeTot' = timeTot + t
                 /\ timeMin' = UpdateMin(timeMin, t)
                 /\ timeMax' = Max(timeMax, t)
                 /\ numLines' = numLines + 1
                 /\ reports' = IF numLines % INTERVAL = 0
                                 THEN reports + 1 ELSE reports
                 /\ IF line # 0
                      THEN /\ Submit(line)
                           /\ fpPos' = fpPos + 1
                      ELSE UNCHANGED <<workQueue, futState, submitted, fpPos>>
                 /\ futures' = left
                 /\ done' = done \ {fut}
                 /\ pc' = IF done \ {fut} # {} THEN "drain"
                          ELSE IF left = {} THEN "final" ELSE "wait"
  /\ UNCHANGED <<others, max_workers, fileLines, futResult, worker, conn, connsOpened, logged,
                 report, exitStatus>>

DrainOneSkippingSample ==
  /\ pc = "drain"
  /\ \E fut \in done :
       IF futState[fut] # "finished"
         THEN /\ pc' = "except"
              /\ UNCHANGED <<fpPos, futState, workQueue, futures, done, count,
                             timeTot, timeMin, timeMax, timesAll, numLines,
                             reports, submitted>>
         ELSE LET t == futResult[fut]
                  line == ReadLine
                  left == (futures \ {fut}) \cup (IF line # 0 THEN {line} ELSE {})
              IN /\ IF t = 0
                      THEN UNCHANGED <<count, timesAll, timeTot, timeMin,
                                       timeMax>>
                      ELSE /\ count' = count + 1
                           /\ timesAll' = Append(timesAll, <<t, fut>>)
                           /\ timeTot' = timeTot + t
                           /\ timeMin' = UpdateMin(timeMin, t)
                           /\ timeMax' = Max(timeMax, t)
                 /\ numLines' = numLines + 1
                 /\ reports' = IF (numLines + 1) % INTERVAL = 0
                                 THEN reports + 1 ELSE reports
                 /\ IF line # 0
                      THEN /\ Submit(line)
                           /\ fpPos' = fpPos + 1
                      ELSE UNCHANGED <<workQueue, futState, submitted, fpPos>>
                 /\ futures' = left
                 /\ done' = done \ {fut}
                 /\ pc' = IF done \ {fut} # {} THEN "drain"
                          ELSE IF left = {} THEN "final" ELSE "wait"
  /\ UNCHANGED <<others, max_workers, fileLines, futResult, worker, conn, connsOpened, logged,
                 report, exitStatus>>

\* One iteration of "for fut in done": fut.result() re-raises the unit's
\* exception, which leaves the loop for the except handler; otherwise the
\* future is popped, the statistics are updated, a periodic report is
\* printed every INTERVAL lines and the next line, if any, is submitted.
DrainOne ==
  /\ pc = "drain"
  /\ \E fut \in done :
       IF futState[fut] # "finished"
         THEN /\ pc' = "except"
              /\ UNCHANGED <<fpPos, futState, workQueue, futures, done, count,
                             timeTot, timeMin, timeMax, timesAll, numLines,
                             reports, submitted>>
         ELSE LET t == futResult[fut]
                  line == ReadLine
                  left == (futures \ {fut}) \cup (IF line # 0 THEN {line} ELSE {})
              IN /\ count' = count + 1
                 /\ timesAll' = Append(timesAll, <<t, fut>>)
                 /\ timeTot' = timeTot + t
                 /\ timeMin' = UpdateMin(timeMin, t)
                 /\ timeMax' = Max(timeMax, t)
                 /\ numLines' = numLines + 1
                 /\ reports' = IF (numLines + 1) % INTERVAL = 0
                                 THEN reports + 1 ELSE reports
                 /\ IF line # 0
                      THEN /\ Submit(line)
                           /\ fpPos' = fpPos + 1
                      ELSE UNCHANGED <<workQueue, futState, submitted, fpPos>>
                 /\ futures' = left
                 /\ done' = done \ {fut}
                 /\ pc' = IF done \ {fut} # {} THEN "drain"
                          ELSE IF left = {} THEN "final" ELSE "wait"
  /\ UNCHANGED <<others, max_workers, fileLines, futResult, worker, conn, connsOpened, logged,
                 report, exitStatus>>

\* ----------------------------------------------------------- final report

\* list.sort(key=lambda x: x[0], reverse=True) is stable, latency
\* descending: a sample goes behind those of greater latency and behind the
\* earlier ones of its own latency.
RankDesc(s, i) ==
  1 + Cardinality({j \in 1..Len(s) :
                     s[j][1] > s[i][1] \/ (s[j][1] = s[i][1] /\ j < i)})

SortDescReversing(s) == [i \in 1..Len(s) |-> s[Len(s) + 1 - i]]

SortDesc(s) ==
  [p \in 1..Len(s) |-> s[CHOOSE i \in 1..Len(s) : RankDesc(s, i) = p]]

\* "while i < count: if timesAll[i][0] <= 1.0: break; i += 1" on the sorted
\* list s (0-based i): where the loop started at i stops, which is the
\* number of leading samples over one second when it starts at 0.
OverOneSecondStrict(s, i) ==
  CHOOSE k \in i..Len(s) :
    /\ k = Len(s) \/ s[k + 1][1] < 1
    /\ \A j \in i..k - 1 : ~(s[j + 1][1] < 1)

OverOneSecond(s, i) ==
  CHOOSE k \in i..Len(s) :
    /\ k = Len(s) \/ s[k + 1][1] <= 1
    /\ \A j \in i..k - 1 : ~(s[j + 1][1] <= 1)

\* int(count * 0.01), int(count * 0.05), int(count * 0.10): the doubles
\* 0.01, 0.05 and 0.10 lie just above the decimal fractions, so the
\* truncated products are the integer quotients.
P99Index(c) == c \div 100
P95IndexOfFifth(c) == c \div 5

P95Index(c) == c \div 20
P90Index(c) == c \div 10

\* The percentile loop: "i = 0; while i < p90: i += 1; if i == p99: print
\* ...; if i == p95: print ...; if i == p90: print ...", on the sorted list
\* s; r is the report so far.
RECURSIVE PercentileLoop(_, _, _)
PercentileLoop(s, i, r) ==
  IF i < P90Index(Len(s))
    THEN LET j == i + 1
             r1 == IF j = P99Index(Len(s)) THEN [r EXCEPT !.p99 = s[j + 1][1]] ELSE r
             r2 == IF j = P95Index(Len(s)) THEN [r1 EXCEPT !.p95 = s[j + 1][1]] ELSE r1
             r3 == IF j = P90Index(Len(s)) THEN [r2 EXCEPT !.p90 = s[j + 1][1]] ELSE r2
         IN PercentileLoop(s, j, r3)
    ELSE r

\* What the final report prints for the sorted history s (count = Len(s)).
ReportOf(s) ==
  PercentileLoop(s, 0,
    [printed |-> TRUE,
     under |-> Len(s) - OverOneSecond(s, 0),
     longest |-> s[1][1], longestId |-> s[1][2],
     p99 |-> -1, p95 |-> -1, p90 |-> -1])

FinalReportGuarded ==
  /\ pc = "final"
  /\ pc' = "exited"
  /\ exitStatus' = 0
  /\ IF count = 0
       THEN UNCHANGED <<timesAll, report>>
       ELSE /\ timesAll' = SortDesc(timesAll)
            /\ report' = ReportOf(SortDesc(timesAll))
  /\ UNCHANGED <<others, max_workers, fileLines, fpPos, futState, futResult,
                 workQueue, worker, conn, connsOpened, futures, done, count,
                 timeTot, timeMin, timeMax, numLines, reports, submitted,
                 logged>>


\* After the loop: the summary line divides by count (ZeroDivisionError with
\* no sample, caught by the handler); then the history is sorted in place,
\* the report is printed and the program runs off its end.
FinalReport ==
  /\ pc = "final"
  /\ IF count = 0
       THEN /\ pc' = "except"
            /\ UNCHANGED <<timesAll, report, exitStatus>>
       ELSE /\ timesAll' = SortDesc(timesAll)
            /\ report' = ReportOf(SortDesc(timesAll))
            /\ pc' = "exited"
            /\ exitStatus' = 0
  /\ UNCHANGED <<others, max_workers, fileLines, fpPos, futState, futResult, workQueue,
                 worker, conn, connsOpened, futures, done, count, timeTot, timeMin, timeMax,
                 numLines, reports, submitted, logged>>

\* -------------------------------------------------------- error handler

\* executor.shutdown(): wait=True, cancel_futures=False; pending work items
\* stay in the queue and are still run.
ExecutorShutdownCancelling ==
  /\ pc = "except"
  /\ pc' = "shutdown"
  /\ workQueue' = <<>>
  /\ futState' = [l \in DOMAIN futState |->
                    IF futState[l] = "pending" THEN "cancelled" ELSE futState[l]]
  /\ UNCHANGED <<others, max_workers, fileLines, fpPos, futResult, worker, conn, connsOpened,
                 futures, done, count, timeTot, timeMin, timeMax, timesAll,
                 numLines, reports, submitted, logged, report, exitStatus>>

ExecutorShutdown ==
  /\ pc = "except"
  /\ pc' = "shutdown"
  /\ UNCHANGED <<others, max_workers, fileLines, fpPos, futState, futResult, workQueue,
                 worker, conn, connsOpened, futures, done, count, timeTot, timeMin, timeMax,
                 timesAll, numLines, reports, submitted, logged, report,
                 exitStatus>>

\* shutdown returns once the queue is empty and every worker thread has
\* ended; exit(-1) then ends the process (SystemExit is not an Exception, so
\* the outer handler lets it through).
ExitAfterShutdown ==
  /\ pc = "shutdown"
  /\ workQueue = <<>>
  /\ \A w \in PoolThreads : worker[w] = 0
  /\ pc' = "exited"
  /\ exitStatus' = -1
  /\ UNCHANGED <<others, max_workers, fileLines, fpPos, futState, futResult, workQueue,
                 worker, conn, connsOpened, futures, done, count, timeTot, timeMin, timeMax,
                 timesAll, numLines, reports, submitted, logged, report>>

\* ------------------------------------------------------- specifications

MainThread ==
  \/ InitialSubmit
  \/ Wait
  \/ DrainOne
  \/ FinalReport
  \/ ExecutorShutdown
  \/ ExitAfterShutdown

Next ==
  \/ MainThread
  \/ \E w \in Threads : WorkerStart(w)
  \/ \E w \in Threads : process_line(w)

Spec == Init /\ [][Next]_vars

\* Termination is checked on the behaviours whose latencies are all zero:
\* neither thread's control flow reads a latency, so these behaviours take
\* the same steps as the others.
FairNext == Next /\ \A l \in DOMAIN futResult : futResult'[l] <= 0

\* Some thread that can take a step eventually takes one: the operating
\* system schedules the threads and no unit hangs.
FairSpec == Init /\ [][FairNext]_vars /\ WF_vars(FairNext)

\* The same scheduling when one unit may hang: every thread that can take a
\* step eventually takes one, and the worker running the hung unit cannot.
HangSpec == HangInit /\ [][FairNext]_vars /\ WF_vars(FairNext)

\* ------------------------------------------- the final report, on its own

\* A completed history of n samples: line i took (stride * i + offset)
\* modulo (MaxReportLatency + 1) seconds.
History(n, stride, offset) ==
  [i \in 1..n |-> <<(stride * i + offset) % (MaxReportLatency + 1), i>>]

\* The history lengths tried: the short ones, and those around the smallest
\* count whose p99 index is positive.
ReportCounts == {n \in 1..MaxCount : n <= MaxSmallCount \/ n >= MinBigCount}

\* The aggregates lines 226-236 compute over the samples lo..hi of s, taken
\* in order: what they add to timeTot, what they make of a timeMin of tm,
\* and the largest latency, which timeMax is raised to.
RECURSIVE TimeTotOver(_, _, _)
TimeTotOver(s, lo, hi) ==
  IF lo > hi THEN 0
  ELSE IF lo = hi THEN s[lo][1]
  ELSE TimeTotOver(s, lo, (lo + hi) \div 2)
         + TimeTotOver(s, (lo + hi) \div 2 + 1, hi)

RECURSIVE TimeMinOver(_, _, _)
TimeMinOver(s, lo, hi) ==
  IF lo > hi THEN [tm \in 0..MaxReportLatency |-> tm]
  ELSE IF lo = hi THEN [tm \in 0..MaxReportLatency |-> UpdateMin(tm, s[lo][1])]
  ELSE [tm \in 0..MaxReportLatency |->
          TimeMinOver(s, (lo + hi) \div 2 + 1, hi)[
            TimeMinOver(s, lo, (lo + hi) \div 2)[tm]]]

RECURSIVE TimeMaxOver(_, _, _)
TimeMaxOver(s, lo, hi) ==
  IF lo > hi THEN 0
  ELSE IF lo = hi THEN s[lo][1]
  ELSE Max(TimeMaxOver(s, lo, (lo + hi) \div 2),
           TimeMaxOver(s, (lo + hi) \div 2 + 1, hi))

\* The state when the wait loop has ended on a completed history: every
\* line was submitted, succeeded and was drained.
ReportInit ==
  \E n \in ReportCounts, stride \in 0..MaxStride, offset \in 0..MaxOffset :
    /\ EnableIdle
    /\ AugmentIdle
    /\ LoadIdle
    /\ max_workers = 1
    /\ fileLines = n
    /\ fpPos = n
    /\ futState = [l \in 1..n |-> "finished"]
    /\ futResult = [l \in 1..n |-> History(n, stride, offset)[l][1]]
    /\ workQueue = <<>>
    /\ worker = [w \in Threads |-> 0]
    /\ conn = [w \in Threads |-> IF w = 1 THEN 1 ELSE 0]
    /\ connsOpened = 1
    /\ futures = {}
    /\ done = {}
    /\ pc = "final"
    /\ count = n
    /\ timeTot = 0 + TimeTotOver(History(n, stride, offset), 1, n)
    /\ timeMin = TimeMinOver(History(n, stride, offset), 1, n)[0]
    /\ timeMax = Max(0, TimeMaxOver(History(n, stride, offset), 1, n))
    /\ timesAll = History(n, stride, offset)
    /\ numLines = n
    /\ reports = n \div INTERVAL
    /\ submitted = [i \in 1..n |-> i]
    /\ logged = {}
    /\ report = NoReport
    /\ exitStatus = 0
    /\ hung = 0

\* Lines 257-279 once more, on the history the first computation left.
FinalReportAgain ==
  /\ pc = "exited"
  /\ exitStatus = 0
  /\ timesAll' = SortDesc(timesAll)
  /\ report' = ReportOf(SortDesc(timesAll))
  /\ pc' = "reported again"
  /\ UNCHANGED <<others, max_workers, fileLines, fpPos, futState, futResult,
                 workQueue, worker, conn, connsOpened, futures, done, count,
                 timeTot, timeMin, timeMax, numLines, reports, submitted,
                 logged, exitStatus>>

ReportNext ==
  \/ FinalReport
  \/ FinalReportAgain

ReportSpec == ReportInit /\ [][ReportNext]_vars

\* ------------------------------------- the orchestration loop, on long files

\* The periodic reports printed while n units were drained: one at every
\* drain whose numLines, once incremented, is a multiple of INTERVAL.
ReportsOver(n) == Cardinality({m \in 1..n : m % INTERVAL = 0})

\* The lines read once n units are drained and each was replaced by the next
\* line of a file of f lines, after an initial window of q_multiple * W.
ReadAfter(n, W, f) == Min(n + q_multiple * W, f)

\* The loop, waiting, MaxLead drains before numLines reaches a multiple of
\* INTERVAL: the lines so far all succeeded in no time and were drained in
\* line order, the worker threads have each opened their connection and are
\* idle, and the window of read lines is queued.  The file ends one line
\* after the multiple.
IntervalInit ==
  \E k \in 1..MaxIntervals :
    LET n == k * INTERVAL - MaxLead
        f == k * INTERVAL + 1
    IN
    /\ EnableIdle
    /\ LoadIdle
    /\ AugmentIdle
    /\ max_workers \in 1..MaxWorkers
    /\ fileLines = f
    /\ fpPos = ReadAfter(n, max_workers, f)
    /\ futState = [l \in 1..f |->
                     IF l <= n THEN "finished"
                     ELSE IF l <= ReadAfter(n, max_workers, f) THEN "pending"
                     ELSE "none"]
    /\ futResult = [l \in 1..f |-> IF l <= n THEN 0 ELSE -1]
    /\ workQueue = [i \in 1..ReadAfter(n, max_workers, f) - n |-> n + i]
    /\ worker = [w \in Threads |-> 0]
    /\ conn = [w \in Threads |-> IF w <= max_workers THEN w ELSE 0]
    /\ connsOpened = max_workers
    /\ futures = n + 1..ReadAfter(n, max_workers, f)
    /\ done = {}
    /\ pc = "wait"
    /\ count = n /\ timeTot = 0 /\ timeMin = 0 /\ timeMax = 0
    /\ timesAll = [i \in 1..n |-> <<0, i>>]
    /\ numLines = n
    /\ reports = ReportsOver(n)
    /\ submitted = [i \in 1..ReadAfter(n, max_workers, f) |-> i]
    /\ logged = {}
    /\ report = NoReport
    /\ exitStatus = 0
    /\ hung = 0

\* The loop of lines 214-252 with its workers and its error handler, up to
\* the point where the while condition fails; latencies are all zero, as in
\* FairNext.
Loop ==
  \/ Wait
  \/ DrainOne
  \/ ExecutorShutdown
  \/ ExitAfterShutdown
  \/ \E w \in Threads : WorkerStart(w)
  \/ \E w \in Threads : process_line(w)

LoopNext == Loop /\ \A l \in DOMAIN futResult : futResult'[l] <= 0

IntervalSpec == IntervalInit /\ [][LoopNext]_vars


\* ------------------------------------------- enable_semantic_candidates.py

\* The configuration documents tried.  G2_CONFIG and its three sections may
\* each be missing; a missing section is shown with no entries.
ConfigKeys == {"G2_CONFIG", "CFG_FTYPE", "CFG_ATTR", "CFG_FBOM"}
KeySets == {ConfigKeys \ d : d \in {m \in SUBSET ConfigKeys : Cardinality(m) <= MaxMissingKeys}}

FtypeCodes == {"SEMANTIC_VALUE", "NAME_SEM_KEY", "NAME"}
AttrKinds == {<<"SEMANTIC_EMBEDDING", "SEMANTIC_VALUE">>,
              <<"SEMANTIC_SCORE", "SEMANTIC_VALUE">>,
              <<"NAME_FULL", "NAME">>}

SeqsUpTo(S, n) == UNION {[1..k -> S] : k \in 0..n}

\* The id of the entry at position p of a section of n entries: the first
\* entry has the highest id.
IdAt(p, n) == IF p = 1 THEN n ELSE p - 1

FtypesOf(codes, cand, show) ==
  [p \in 1..Len(codes) |->
     [FTYPE_ID |-> IdAt(p, Len(codes)), FTYPE_CODE |-> codes[p],
      FTYPE_DESC |-> "existing", USED_FOR_CAND |-> cand,
      SHOW_IN_MATCH_KEY |-> show]]

AttrsOf(kinds) ==
  [p \in 1..Len(kinds) |->
     [ATTR_ID |-> IdAt(p, Len(kinds)), ATTR_CODE |-> kinds[p][1],
      FTYPE_CODE |-> kinds[p][2]]]

FbomsOf(ids) == [p \in 1..Len(ids) |-> [FTYPE_ID |-> ids[p], FELEM_ID |-> p]]

Configs ==
  {[keys |-> ks,
    CFG_FTYPE |-> IF "CFG_FTYPE" \in ks THEN FtypesOf(codes, cand, show) ELSE <<>>,
    CFG_ATTR |-> IF "CFG_ATTR" \in ks THEN AttrsOf(kinds) ELSE <<>>,
    CFG_FBOM |-> IF "CFG_FBOM" \in ks THEN FbomsOf(ids) ELSE <<>>] :
     ks \in KeySets,
     codes \in SeqsUpTo(FtypeCodes, MaxFtypes),
     cand \in {"Yes", "No"}, show \in {"Yes", "No"},
     kinds \in SeqsUpTo(AttrKinds, MaxAttrs),
     ids \in SeqsUpTo(1..MaxFtypes, MaxFboms)}

\* attr_mapping of create_name_sem_key_feature.
attr_mapping ==
  [c \in {"SEMANTIC_EMBEDDING", "SEMANTIC_LABEL", "SEMANTIC_ALGORITHM"} |->
     CASE c = "SEMANTIC_EMBEDDING" -> "NAME_SEM_KEY_EMBEDDING"
       [] c = "SEMANTIC_LABEL" -> "NAME_SEM_KEY_LABEL"
       [] c = "SEMANTIC_ALGORITHM" -> "NAME_SEM_KEY_ALGORITHM"]

\* The position of the first feature type with the code, 0 when none has it.
FirstFtype(ftypes, code) ==
  IF \E p \in 1..Len(ftypes) : ftypes[p].FTYPE_CODE = code
    THEN CHOOSE p \in 1..Len(ftypes) :
           /\ ftypes[p].FTYPE_CODE = code
           /\ \A q \in 1..p - 1 : ftypes[q].FTYPE_CODE # code
    ELSE 0

\* max([...]) of the ids of a section that has entries.
MaxId(ids) == CHOOSE m \in ids : \A i \in ids : i <= m

\* dict(semantic_value_ftype) with the five assignments of lines 92-96.
NameSemKeyFtypeAsCopied(semantic_value_ftype, new_ftype_id) ==
  [semantic_value_ftype EXCEPT
     !.FTYPE_ID = new_ftype_id,
     !.FTYPE_CODE = "NAME_SEM_KEY",
     !.FTYPE_DESC = "Name semantic key for candidate generation"]

NameSemKeyFtype(semantic_value_ftype, new_ftype_id) ==
  [semantic_value_ftype EXCEPT
     !.FTYPE_ID = new_ftype_id,
     !.FTYPE_CODE = "NAME_SEM_KEY",
     !.FTYPE_DESC = "Name semantic key for candidate generation",
     !.USED_FOR_CAND = "Yes",
     !.SHOW_IN_MATCH_KEY = "No"]

\* g2_config["CFG_FTYPE"].append(name_sem_key_ftype)
AppendFtypeOverLast(ftypes, name_sem_key_ftype) ==
  [ftypes EXCEPT ![Len(ftypes)] = name_sem_key_ftype]

AppendFtype(ftypes, name_sem_key_ftype) == Append(ftypes, name_sem_key_ftype)

\* The loop of lines 122-132 over the SEMANTIC_VALUE attributes from
\* position p on: each one with a mapped code is copied under the next id.
RECURSIVE CopyAttrs(_, _, _)
CopyAttrs(attrs, p, max_attr_id) ==
  IF p > Len(attrs) THEN <<>>
  ELSE IF attrs[p].FTYPE_CODE = "SEMANTIC_VALUE"
            /\ attrs[p].ATTR_CODE \in DOMAIN attr_mapping
    THEN <<[attrs[p] EXCEPT !.ATTR_ID = max_attr_id + 1,
                            !.ATTR_CODE = attr_mapping[attrs[p].ATTR_CODE],
                            !.FTYPE_CODE = "NAME_SEM_KEY"]>>
           \o CopyAttrs(attrs, p + 1, max_attr_id + 1)
  ELSE CopyAttrs(attrs, p + 1, max_attr_id)

\* The copies of the CFG_FBOM entries of the SEMANTIC_VALUE feature type,
\* from position p on, under the new feature type id (lines 136-144).
RECURSIVE CopyFboms(_, _, _, _)
CopyFboms(fboms, p, ftype_id, new_ftype_id) ==
  IF p > Len(fboms) THEN <<>>
  ELSE IF fboms[p].FTYPE_ID = ftype_id
    THEN <<[fboms[p] EXCEPT !.FTYPE_ID = new_ftype_id]>>
           \o CopyFboms(fboms, p + 1, ftype_id, new_ftype_id)
  ELSE CopyFboms(fboms, p + 1, ftype_id, new_ftype_id)

\* What create_name_sem_key_feature hands back: None, a configuration, or
\* the ValueError of max() over no attribute ids.
Returned(config) == [kind |-> "config", config |-> config]
ReturnedNone == [kind |-> "None", config |-> [keys |-> {}, CFG_FTYPE |-> <<>>, CFG_ATTR |-> <<>>, CFG_FBOM |-> <<>>]]
RaisedValueError == [kind |-> "ValueError", config |-> [keys |-> {}, CFG_FTYPE |-> <<>>, CFG_ATTR |-> <<>>, CFG_FBOM |-> <<>>]]
NotCalled == [kind |-> "not called", config |-> [keys |-> {}, CFG_FTYPE |-> <<>>, CFG_ATTR |-> <<>>, CFG_FBOM |-> <<>>]]

create_name_sem_key_feature(config) ==
  LET ftypes == config.CFG_FTYPE
      sv == FirstFtype(ftypes, "SEMANTIC_VALUE")
      nsk == FirstFtype(ftypes, "NAME_SEM_KEY")
      new_ftype_id == MaxId({ftypes[p].FTYPE_ID : p \in 1..Len(ftypes)}) + 1
      max_attr_id == MaxId({config.CFG_ATTR[p].ATTR_ID : p \in 1..Len(config.CFG_ATTR)})
  IN IF "G2_CONFIG" \notin config.keys THEN ReturnedNone
     ELSE IF sv = 0 THEN ReturnedNone
     ELSE IF nsk # 0
       THEN Returned([config EXCEPT
              !.CFG_FTYPE = [ftypes EXCEPT ![nsk].USED_FOR_CAND = "Yes",
                                           ![nsk].SHOW_IN_MATCH_KEY = "No"]])
     ELSE IF config.CFG_ATTR = <<>> THEN RaisedValueError
     ELSE Returned([config EXCEPT
            !.CFG_FTYPE = AppendFtype(ftypes, NameSemKeyFtype(ftypes[sv], new_ftype_id)),
            !.CFG_ATTR = config.CFG_ATTR \o CopyAttrs(config.CFG_ATTR, 1, max_attr_id),
            !.CFG_FBOM = IF "CFG_FBOM" \in config.keys
                           THEN config.CFG_FBOM
                                  \o CopyFboms(config.CFG_FBOM, 1, ftypes[sv].FTYPE_ID, new_ftype_id)
                           ELSE config.CFG_FBOM])

\* The engine's configuration store before the script runs: one registered
\* configuration, which is the default.
StoreOf(config) == [default |-> 1, configs |-> <<config>>]

\* "if args.dry_run:" at line 205.
DryRunIgnored == FALSE

DryRun == args_dry_run

\* The search program's variables that no other program's run shares.
searchVars == <<max_workers, fileLines, fpPos, futState, futResult, workQueue,
                worker, conn, connsOpened, futures, done, count, timeTot,
                timeMin, timeMax, timesAll, numLines, reports, submitted,
                logged, report, hung>>

\* What a step of enable_semantic_candidates leaves alone.
notEnable == <<searchVars, augmentVars, loadVars>>

\* sys.exit(status): SystemExit passes the "except Exception" handler.
EnableExit(status) ==
  /\ pc' = "exited"
  /\ exitStatus' = status

\* main up to create_configmanager: parse the arguments, read
\* SENZING_ENGINE_CONFIGURATION_JSON (exit -1 when it is not set), create the
\* factory and the configuration manager (an exception ends in the handler,
\* which exits -1).
EnableStart ==
  /\ pc = "enable"
  /\ \E dry \in BOOLEAN, engine_config \in BOOLEAN, ok \in BOOLEAN :
       /\ args_dry_run' = dry
       /\ IF engine_config /\ ok
            THEN pc' = "get_default" /\ UNCHANGED exitStatus
            ELSE EnableExit(-1)
  /\ UNCHANGED <<notEnable, store, calls, default_config_id,
                 current_config_json, new_config_json, new_config_id>>

\* config_manager.get_default_config_id()
GetDefaultConfigId ==
  /\ pc = "get_default"
  /\ calls' = Append(calls, "get_default_config_id")
  /\ \E ok \in BOOLEAN :
       IF ok THEN /\ default_config_id' = store.default
                  /\ pc' = "export"
                  /\ UNCHANGED exitStatus
             ELSE /\ EnableExit(-1)
                  /\ UNCHANGED default_config_id
  /\ UNCHANGED <<notEnable, args_dry_run, store, current_config_json,
                 new_config_json, new_config_id>>

\* config_manager.create_config_from_config_id(default_config_id).export()
ExportConfig ==
  /\ pc = "export"
  /\ calls' = Append(calls, "create_config_from_config_id")
  /\ \E ok \in BOOLEAN :
       IF ok THEN /\ current_config_json' = store.configs[default_config_id]
                  /\ pc' = "modify"
                  /\ UNCHANGED exitStatus
             ELSE /\ EnableExit(-1)
                  /\ UNCHANGED current_config_json
  /\ UNCHANGED <<notEnable, args_dry_run, store, default_config_id,
                 new_config_json, new_config_id>>

\* Lines 199-208: modify the exported configuration; None ends with
\* exit(-1), the ValueError ends in the handler, and --dry-run ends with
\* exit(0) before anything is registered.
ModifyConfig ==
  /\ pc = "modify"
  /\ new_config_json' = create_name_sem_key_feature(current_config_json)
  /\ IF new_config_json'.kind # "config" THEN EnableExit(-1)
     ELSE IF DryRun THEN EnableExit(0)
     ELSE pc' = "register" /\ UNCHANGED exitStatus
  /\ UNCHANGED <<notEnable, args_dry_run, store, calls, default_config_id,
                 current_config_json, new_config_id>>

\* config_manager.register_config(new_config_json, comment): the store
\* gives the new configuration the next id.
RegisterConfig ==
  /\ pc = "register"
  /\ calls' = Append(calls, "register_config")
  /\ \E ok \in BOOLEAN :
       IF ok THEN /\ store' = [store EXCEPT !.configs = Append(@, new_config_json.config)]
                  /\ new_config_id' = Len(store.configs) + 1
                  /\ pc' = "set_default"
                  /\ UNCHANGED exitStatus
             ELSE /\ EnableExit(-1)
                  /\ UNCHANGED <<store, new_config_id>>
  /\ UNCHANGED <<notEnable, args_dry_run, default_config_id,
                 current_config_json, new_config_json>>

\* config_manager.set_default_config_id(new_config_id); when the call
\* raises, the engine may or may not have switched the default.
SetDefaultConfigId ==
  /\ pc = "set_default"
  /\ calls' = Append(calls, "set_default_config_id")
  /\ \E ok \in BOOLEAN, switched \in BOOLEAN :
       /\ ok => switched
       /\ store' = IF switched THEN [store EXCEPT !.default = new_config_id] ELSE store
       /\ EnableExit(IF ok THEN 0 ELSE -1)
  /\ UNCHANGED <<notEnable, args_dry_run, default_config_id,
                 current_config_json, new_config_json, new_config_id>>

EnableNext ==
  \/ EnableStart
  \/ GetDefaultConfigId
  \/ ExportConfig
  \/ ModifyConfig
  \/ RegisterConfig
  \/ SetDefaultConfigId

\* The search program at rest, for the runs of the other programs.
SearchIdle ==
  /\ max_workers = 1
  /\ fileLines = 0
  /\ fpPos = 0
  /\ futState = [l \in Lines |-> "none"]
  /\ futResult = [l \in Lines |-> -1]
  /\ workQueue = <<>>
  /\ worker = [w \in Threads |-> 0]
  /\ conn = [w \in Threads |-> 0]
  /\ connsOpened = 0
  /\ futures = {}
  /\ done = {}
  /\ count = 0 /\ timeTot = 0 /\ timeMin = 0 /\ timeMax = 0
  /\ timesAll = <<>>
  /\ numLines = 0
  /\ reports = 0
  /\ submitted = <<>>
  /\ logged = {}
  /\ report = NoReport
  /\ hung = 0

\* The store holds one of the configurations; the script has not started.
EnableInit ==
  /\ SearchIdle
  /\ LoadIdle
  /\ AugmentIdle
  /\ pc = "enable"
  /\ exitStatus = 0
  /\ args_dry_run = FALSE
  /\ \E config \in {c \in Configs : c.CFG_FBOM = <<>>} : store = StoreOf(config)
  /\ calls = <<>>
  /\ default_config_id = 0
  /\ current_config_json = NotCalled.config
  /\ new_config_json = NotCalled
  /\ new_config_id = 0

EnableSpec == EnableInit /\ [][EnableNext]_vars

\* create_name_sem_key_feature on its own: main is about to call it on a
\* configuration.
ConfigInit ==
  /\ SearchIdle
  /\ LoadIdle
  /\ AugmentIdle
  /\ pc = "modify"
  /\ exitStatus = 0
  /\ args_dry_run \in BOOLEAN
  /\ \E config \in Configs :
       /\ store = StoreOf(config)
       /\ current_config_json = config
  /\ calls = <<"get_default_config_id", "create_config_from_config_id">>
  /\ default_config_id = 1
  /\ new_config_json = NotCalled
  /\ new_config_id = 0

ConfigSpec == ConfigInit /\ [][ModifyConfig]_vars

\* A later run of the script on what the first run produced: the export of
\* line 194 now yields the configuration create_name_sem_key_feature handed
\* back, and line 199 applies the function to it.
ModifyConfigAgain ==
  /\ pc \in {"register", "exited"}
  /\ new_config_json.kind = "config"
  /\ current_config_json' = new_config_json.config
  /\ new_config_json' = create_name_sem_key_feature(new_config_json.config)
  /\ pc' = "modified again"
  /\ UNCHANGED <<notEnable, args_dry_run, store, calls, default_config_id,
                 new_config_id, exitStatus>>

RerunNext ==
  \/ ModifyConfig
  \/ ModifyConfigAgain

RerunSpec == ConfigInit /\ [][RerunNext]_vars

\* ------------------------------------- process_line: forced candidates

\* A JSON object is the sequence of its entries in key order.  An entry
\* holds a string (str) or an object (kind "dict", entries in dict); a key
\* is the sequence of its characters.
NAME_ORG == <<"N", "A", "M", "E", "_", "O", "R", "G">>
NAME_FULL == <<"N", "A", "M", "E", "_", "F", "U", "L", "L">>

\* The keys tried: an exact one, a lower-case one behind a prefix, and one
\* that only starts with NAME_FULL.
Keys == {NAME_FULL,
         <<"p", "r", "i", "m", "a", "r", "y", "_", "n", "a", "m", "e", "_", "o", "r", "g">>,
         NAME_FULL \o <<"_", "2">>}

\* The names tried; "" is the empty string.
Names == {"", "Acme Corp", "Bob Smith"}

LeafEntries == {[key |-> k, kind |-> "str", str |-> n, dict |-> <<>>] : k \in Keys, n \in Names}

\* Objects inside the record hold at most one entry.
Dicts == {<<>>} \cup {<<e>> : e \in LeafEntries}

Entries ==
  LeafEntries \cup {[key |-> k, kind |-> "dict", str |-> "", dict |-> d] : k \in Keys, d \in Dicts}

\* The records of up to MaxEntries entries with distinct keys.
Records ==
  {r \in SeqsUpTo(Entries, MaxEntries) :
     \A p, q \in 1..Len(r) : p # q => r[p].key # r[q].key}

\* The rows the similarity lookup returns for a name when the table holds k
\* rows above the threshold for it, nearest first.
RowsOf(name, k) ==
  [i \in 1..k |-> IF name = "Acme Corp" THEN <<"CUSTOMERS", i>>
                                          ELSE <<"WATCHLIST", k + 1 - i>>]

\* str.upper() on the characters the keys are made of.
UpperUnchanged(c) == c

Upper(c) ==
  CASE c = "a" -> "A" [] c = "e" -> "E" [] c = "g" -> "G" [] c = "i" -> "I"
    [] c = "m" -> "M" [] c = "n" -> "N" [] c = "o" -> "O" [] c = "p" -> "P"
    [] c = "r" -> "R" [] c = "y" -> "Y" [] OTHER -> c

KeyUpper(key) == [i \in 1..Len(key) |-> Upper(key[i])]

\* str.endswith(suffix)
EndsWith(s, suffix) ==
  /\ Len(s) >= Len(suffix)
  /\ SubSeq(s, Len(s) - Len(suffix) + 1, Len(s)) = suffix

\* process_name: no lookup for an empty value, else the rows of the query
\* as [DATA_SOURCE, RECORD_ID] pairs.
process_name(val) == IF val = "" THEN <<>> ELSE rows[val]

\* process_record_for_embed: the entries in order, objects recursively.
RECURSIVE process_record_for_embed(_)
process_record_for_embed(r) ==
  IF r = <<>> THEN <<>>
  ELSE (IF Head(r).kind = "dict"
          THEN process_record_for_embed(Head(r).dict)
        ELSE IF EndsWith(KeyUpper(Head(r).key), NAME_ORG)
                  \/ EndsWith(KeyUpper(Head(r).key), NAME_FULL)
          THEN process_name(Head(r).str)
        ELSE <<>>)
       \o process_record_for_embed(Tail(r))

\* Lines 132-135: the block built from the found records.
ForcedCandidates(forced_records) ==
  [RECORDS |-> [i \in 1..Len(forced_records) |->
                  [DATA_SOURCE |-> forced_records[i][1],
                   RECORD_ID |-> forced_records[i][2]]]]

NotSearched == [sent |-> FALSE, record |-> <<>>, attached |-> FALSE, block |-> [RECORDS |-> <<>>]]

\* What a step of the augmentation leaves alone.
notAugment == <<searchVars, enableVars, loadVars, exitStatus>>

\* Lines 130-141 of process_line: look the names up, attach the block under
\* _FORCED_CANDIDATES when records were found, and hand the record to
\* search_by_attributes.
Augment ==
  /\ pc = "augment"
  /\ searched' =
       IF process_record_for_embed(record) # <<>>
         THEN [sent |-> TRUE, record |-> record, attached |-> TRUE,
               block |-> ForcedCandidates(process_record_for_embed(record))]
         ELSE [sent |-> TRUE, record |-> record, attached |-> FALSE,
               block |-> [RECORDS |-> <<>>]]
  /\ pc' = "searched"
  /\ UNCHANGED <<notAugment, record, rows>>

\* A worker has parsed a record; of the MaxRows rows the table holds above
\* the threshold, some answer the first name and the others the second.
AugmentInit ==
  /\ SearchIdle
  /\ LoadIdle
  /\ EnableIdle
  /\ pc = "augment"
  /\ exitStatus = 0
  /\ record \in Records
  /\ \E k \in 0..MaxRows :
       rows = [n \in Names \ {""} |->
                 RowsOf(n, IF n = "Acme Corp" THEN k ELSE MaxRows - k)]
  /\ searched = NotSearched

AugmentSpec == AugmentInit /\ [][Augment]_vars

\* ----------------------------------------------------- semantic_load.py

\* What a step of the loader leaves alone.
notLoad == <<futResult, futures, done, timeTot, timeMin, timeMax, timesAll,
             numLines, reports, report, hung, enableVars, augmentVars>>

\* Lines 163-174: the engine is set up, ThreadPoolExecutor(20) is created
\* and the file is opened; an exception in any of these ends in the
\* handler, which exits -1.  Then "count = 0; records_left = 0".
LoadStart ==
  /\ pc = "load"
  /\ \E ok \in BOOLEAN :
       IF ok THEN /\ pc' = "read"
                  /\ UNCHANGED exitStatus
             ELSE /\ pc' = "exited"
                  /\ exitStatus' = -1
  /\ UNCHANGED <<notLoad, max_workers, fileLines, fpPos, futState, workQueue,
                 worker, conn, connsOpened, count, submitted, logged,
                 records_left, mainReg, regs, connFailed>>

\* "for line in fp: count += 1" and the read of records_left that starts
\* "records_left += 1"; at the end of the file the loop ends and
\* executor.shutdown(wait=True, cancel_futures=False) begins.
LoadRead ==
  /\ pc = "read"
  /\ IF ReadLine # 0
       THEN /\ fpPos' = fpPos + 1
            /\ count' = count + 1
            /\ mainReg' = records_left
            /\ pc' = "submit"
       ELSE /\ pc' = "join"
            /\ UNCHANGED <<fpPos, count, mainReg>>
  /\ UNCHANGED <<notLoad, max_workers, fileLines, futState, workQueue, worker,
                 conn, connsOpened, submitted, logged, exitStatus,
                 records_left, regs, connFailed>>

\* The write that ends "records_left += 1", and
\* executor.submit(process_record, url, line).
LoadSubmit ==
  /\ pc = "submit"
  /\ records_left' = mainReg + 1
  /\ Submit(fpPos)
  /\ pc' = "read"
  /\ UNCHANGED <<notLoad, max_workers, fileLines, fpPos, worker, conn,
                 connsOpened, count, logged, exitStatus, mainReg, regs,
                 connFailed>>

\* process_record on worker w up to the read of records_left that begins
\* "records_left -= 1": the thread-local connection is opened on first use;
\* any exception, a failed connection included, is printed and the unit
\* returns normally.
process_record(w) ==
  /\ w \in PoolThreads
  /\ worker[w] # 0
  /\ regs[w] = NoReg
  /\ LET l == worker[w] IN
     \E connected \in BOOLEAN, ok \in BOOLEAN :
        /\ HasConn(w) => connected
        /\ IF ~HasConn(w) /\ connected
             THEN /\ conn' = [conn EXCEPT ![w] = connsOpened + 1]
                  /\ connsOpened' = connsOpened + 1
             ELSE UNCHANGED <<conn, connsOpened>>
        /\ connFailed' = IF connected THEN connFailed ELSE connFailed \cup {l}
        /\ IF connected /\ ok
             THEN /\ regs' = [regs EXCEPT ![w] = {records_left}]
                  /\ UNCHANGED <<worker, futState, logged>>
             ELSE /\ logged' = logged \cup {l}
                  /\ futState' = [futState EXCEPT ![l] = "finished"]
                  /\ worker' = [worker EXCEPT ![w] = 0]
                  /\ UNCHANGED regs
  /\ UNCHANGED <<notLoad, max_workers, fileLines, fpPos, workQueue, count,
                 submitted, pc, exitStatus, records_left, mainReg>>

\* The write that ends "records_left -= 1" on worker w, and the rest of
\* process_record; the unit returns.
StoreRecordsLeft(w) ==
  /\ w \in PoolThreads
  /\ worker[w] # 0
  /\ regs[w] # NoReg
  /\ records_left' = (CHOOSE v \in regs[w] : TRUE) - 1
  /\ regs' = [regs EXCEPT ![w] = NoReg]
  /\ futState' = [futState EXCEPT ![worker[w]] = "finished"]
  /\ worker' = [worker EXCEPT ![w] = 0]
  /\ UNCHANGED <<notLoad, max_workers, fileLines, fpPos, workQueue, conn,
                 connsOpened, count, submitted, logged, pc, exitStatus,
                 mainReg, connFailed>>

\* executor.shutdown(wait=True) returns when the queue is empty and every
\* worker has returned; the script then runs off its end.
LoadExit ==
  /\ pc = "join"
  /\ workQueue = <<>>
  /\ \A w \in Threads : worker[w] = 0
  /\ pc' = "exited"
  /\ exitStatus' = 0
  /\ UNCHANGED <<notLoad, max_workers, fileLines, fpPos, futState, workQueue,
                 worker, conn, connsOpened, count, submitted, logged,
                 records_left, mainReg, regs, connFailed>>

LoadNext ==
  \/ LoadStart
  \/ LoadRead
  \/ LoadSubmit
  \/ LoadExit
  \/ \E w \in Threads : WorkerStart(w)
  \/ \E w \in Threads : process_record(w)
  \/ \E w \in Threads : StoreRecordsLeft(w)

\* The loader before it opens its file.  Of the pool's LoadPoolSize threads
\* the runs start at most MaxWorkers.
LoadInit ==
  /\ EnableIdle
  /\ AugmentIdle
  /\ max_workers = LoadPoolSize
  /\ fileLines \in 0..MaxLines
  /\ fpPos = 0
  /\ futState = [l \in Lines |-> "none"]
  /\ futResult = [l \in Lines |-> -1]
  /\ workQueue = <<>>
  /\ worker = [w \in Threads |-> 0]
  /\ conn = [w \in Threads |-> 0]
  /\ connsOpened = 0
  /\ futures = {}
  /\ done = {}
  /\ pc = "load"
  /\ count = 0 /\ timeTot = 0 /\ timeMin = 0 /\ timeMax = 0
  /\ timesAll = <<>>
  /\ numLines = 0
  /\ reports = 0
  /\ submitted = <<>>
  /\ logged = {}
  /\ report = NoReport
  /\ exitStatus = 0
  /\ hung = 0
  /\ records_left = 0
  /\ mainReg = 0
  /\ regs = [w \in Threads |-> NoReg]
  /\ connFailed = {}

LoadSpec == LoadInit /\ [][LoadNext]_vars

\* The loader under a scheduler that lets every thread that can take a step
\* eventually take one; no call of a unit blocks for ever.
LoadFairSpec == LoadInit /\ [][LoadNext]_vars /\ WF_vars(LoadNext)

\* ================================================================ claims

Running == {l \in Lines : futState[l] = "running"}

IsPrefixOfInput(s) == \A p \in 1..Len(s) : s[p] = p

Aborting == pc \in {"except", "shutdown"} \/ (pc = "exited" /\ exitStatus # 0)

SamplesOf(l) == {i \in 1..Len(timesAll) : timesAll[i][2] = l}

\* C1: at most max_workers units are being executed by a worker thread at
\* any time.
RunningWithinWorkers == Cardinality(Running) <= max_workers

\* C1 witness: every worker of a two-thread pool runs a unit while a third
\* unit waits in the queue.
RunningWithinWorkersWitness ==
  /\ max_workers = 2
  /\ Cardinality(Running) = 2
  /\ workQueue # <<>>

FailureIsContained ==
  /\ (logged # {} => ~Aborting)
  /\ (logged # {} /\ pc = "exited" =>
        Len(submitted) = fileLines /\ numLines = fileLines /\ futures = {})

\* C4 as stated: when the run ends the sample count, which is the length of
\* the history, is the number of input lines minus the number of failed
\* units.
SampleCountIsLinesMinusFailures ==
  pc = "exited" =>
    /\ count = Len(timesAll)
    /\ count = fileLines - Cardinality(logged)

\* C5 as stated: when the run has ended every line whose unit completed
\* successfully has exactly one sample in the history, and the history
\* never holds two samples for one line.
EverySuccessSampledOnce ==
  /\ \A l \in Lines : Cardinality(SamplesOf(l)) <= 1
  /\ (pc = "exited" =>
        \A l \in Lines : futState[l] = "finished" => Cardinality(SamplesOf(l)) = 1)

\* C6: the lines are submitted in input order, each at most once, whatever
\* the order in which the units complete.
SubmissionInLineOrder == IsPrefixOfInput(submitted)

\* C6 witness: all lines of a file longer than the initial window have been
\* submitted, and a later line's sample was recorded before an earlier one's.
SubmissionInLineOrderWitness ==
  /\ fileLines > q_multiple * max_workers
  /\ Len(submitted) = fileLines
  /\ pc # "exited"
  /\ Len(timesAll) >= 2
  /\ timesAll[1][2] > timesAll[2][2]

\* C7: when every unit eventually completes the loop eventually ends, and it
\* ends normally only with the input exhausted, every line submitted and no
\* future outstanding.
SchedulerTerminates ==
  /\ <>(pc \notin {"start", "wait", "drain"})
  /\ [](pc = "final" =>
          /\ fpPos = fileLines
          /\ Len(submitted) = fileLines
          /\ futures = {})

\* C7 witness: the loop has ended normally on a file longer than the initial
\* window.
SchedulerTerminatesWitness ==
  /\ pc = "final"
  /\ fileLines > q_multiple * max_workers
  /\ numLines = fileLines

\* C8: once an error has reached the orchestration loop no line is
\* submitted any more, no future is ever cancelled, and the process exits,
\* with a non-zero status, only when every submitted unit has finished.
ErrorDrainsThenExits ==
  /\ [](\A l \in Lines : futState[l] # "cancelled")
  /\ [](pc = "exited" /\ exitStatus # 0 =>
          \A i \in 1..Len(submitted) :
             futState[submitted[i]] \in {"finished", "failed"})
  /\ [][Aborting =>
          /\ submitted' = submitted
          /\ fpPos' = fpPos
          /\ (pc' = "exited" => exitStatus' # 0)]_vars

\* C8 witness: the process has exited with status -1; a unit that was still
\* queued or running when the error arrived has finished without being
\* sampled, and lines of the input were never submitted.
ErrorDrainsThenExitsWitness ==
  /\ pc = "exited"
  /\ exitStatus = -1
  /\ fpPos < fileLines
  /\ \E l \in Lines : futState[l] = "finished" /\ l \in futures /\ l \notin done

\* C9 as stated: after at least one sample, timeMin is the smallest latency
\* recorded so far, zero latencies included.
TimeMinIsSmallest ==
  count >= 1 =>
    /\ \E i \in 1..Len(timesAll) : timesAll[i][1] = timeMin
    /\ \A i \in 1..Len(timesAll) : timeMin <= timesAll[i][1]

\* C10 as stated: for count >= 1 the final report prints p99, p95 and p90,
\* each the latency at index floor(count * fraction) of the history sorted
\* by latency descending.
PercentilesReported ==
  report.printed =>
    /\ report.p99 = timesAll[(count \div 100) + 1][1]
    /\ report.p95 = timesAll[(count \div 20) + 1][1]
    /\ report.p90 = timesAll[(count \div 10) + 1][1]


\* C13: a worker thread opens its connection while running a unit, keeps
\* that same connection ever after, shares it with no other thread, and no
\* more connections are opened than there are worker threads.
OneConnectionPerWorker ==
  /\ [](connsOpened = Cardinality({w \in Threads : conn[w] # 0}))
  /\ [](connsOpened <= max_workers)
  /\ [](\A w, v \in Threads : w # v /\ conn[w] # 0 => conn[w] # conn[v])
  /\ [][\A w \in Threads :
          /\ conn[w] # 0 => conn'[w] = conn[w]
          /\ conn'[w] # conn[w] => worker[w] # 0 /\ worker'[w] = 0]_vars

\* C13 witness: three units have run on two worker threads, each thread
\* holding its own connection, so one connection served two units.
OneConnectionPerWorkerWitness ==
  /\ max_workers = 2
  /\ connsOpened = 2
  /\ conn[1] # 0 /\ conn[2] # 0
  /\ Cardinality({l \in Lines : futState[l] = "finished"}) = 3


RefillOneForOne ==
  /\ [](pc # "start" =>
          Cardinality(futures) <= Min(q_multiple * max_workers, fileLines))
  /\ [](pc # "start" /\ fpPos < fileLines =>
          Cardinality(futures) = q_multiple * max_workers)
  /\ [][Cardinality(futures') < Cardinality(futures) => fpPos = fileLines]_vars
  /\ [][numLines' # numLines =>
          /\ \E fut \in futures : futures \ futures' = {fut}
          /\ Len(submitted') = Len(submitted) + (IF fpPos < fileLines THEN 1 ELSE 0)
          /\ futures' \ futures = {submitted'[i] : i \in Len(submitted) + 1..Len(submitted')}]_vars

\* C19 witness: a drained unit has just been replaced by the last line of a
\* file longer than the initial window, which is full again.
RefillOneForOneWitness ==
  /\ fileLines > q_multiple * max_workers
  /\ numLines >= 1
  /\ fpPos = fileLines
  /\ Cardinality(futures) = q_multiple * max_workers

RECURSIVE SumOfLatencies(_)
SumOfLatencies(s) == IF s = <<>> THEN 0 ELSE s[1][1] + SumOfLatencies(Tail(s))

\* C20: the running aggregates agree with the history: count is its
\* length, timeTot the sum of its latencies and timeMax its largest latency,
\* 0 when it is empty.
AggregatesAgreeWithHistory ==
  /\ count = Len(timesAll)
  /\ timeTot = SumOfLatencies(timesAll)
  /\ \A i \in 1..Len(timesAll) : timesAll[i][1] <= timeMax
  /\ IF timesAll = <<>> THEN timeMax = 0
     ELSE \E i \in 1..Len(timesAll) : timesAll[i][1] = timeMax

\* C20 witness: the loop has recorded a sample smaller than an earlier one.
AggregatesAgreeWithHistoryWitness ==
  /\ pc \in {"wait", "drain"}
  /\ count >= 2
  /\ timesAll[count][1] < timesAll[count - 1][1]
  /\ timeTot >= 1


\* A worker is running the unit that never returns, next to another worker.
Hanging == hung # 0 /\ max_workers >= 2 /\ futState[hung] = "running"

\* C16: no per-unit timeout.  When one unit never completes and there are
\* at least two workers, every other input line is eventually submitted,
\* completed and recorded as a sample, while the scheduler never reaches the
\* final report and never exits.
HungUnitOnlyOccupiesItsSlot ==
  /\ \A l \in 1..MaxHangLines :
       (Hanging /\ l <= fileLines /\ l # hung) ~> (SamplesOf(l) # {})
  /\ [](Hanging => pc \notin {"final", "exited"} /\ ~report.printed)

\* The behaviour C16 describes, in the runs where no unit fails: a failed
\* unit ends the loop (C3) and leaves the later lines unsubmitted.
HungUnitOnlyOccupiesItsSlotUnlessFailure ==
  /\ Hanging ~> (logged # {} \/ \A l \in 1..fileLines : l # hung => SamplesOf(l) # {})
  /\ [](Hanging => pc \notin {"final", "exited"} /\ ~report.printed)

\* The number of times sample x occurs in the history s.
Occurrences(s, x) == Cardinality({i \in 1..Len(s) : s[i] = x})

SameSamples(s, t) ==
  /\ Len(s) = Len(t)
  /\ \A i \in 1..Len(s) : Occurrences(s, s[i]) = Occurrences(t, s[i])

DryRunLeavesStoreAlone ==
  /\ [][args_dry_run =>
          /\ store' = store
          /\ \A i \in 1..Len(calls') :
               calls'[i] \notin {"register_config", "set_default_config_id"}]_vars
  /\ [](\A i \in 1..Len(calls) :
          calls[i] = "set_default_config_id" =>
            /\ i > 1 /\ calls[i - 1] = "register_config"
            /\ new_config_id = Len(store.configs)
            /\ new_config_id > 1
            /\ store.configs[new_config_id] = new_config_json.config)
  /\ [][store'.default # store.default =>
          /\ calls' = Append(calls, "set_default_config_id")
          /\ store'.default = new_config_id]_vars
  /\ [](pc = "exited" /\ exitStatus # 0
          /\ (\A i \in 1..Len(calls) : calls[i] # "set_default_config_id")
          => store.default = 1)

\* C17 witness: a dry run went through the modification and exited 0.
DryRunLeavesStoreAloneWitness ==
  /\ pc = "exited"
  /\ exitStatus = 0
  /\ args_dry_run
  /\ new_config_json.kind = "config"
  /\ new_config_json.config # current_config_json
  /\ Len(calls) = 2

\* An entry of a section belongs to NAME_SEM_KEY when it is a feature type
\* or an attribute of that code, or a CFG_FBOM entry of such a feature type.
BelongsToNameSemKey(e) == e.FTYPE_CODE = "NAME_SEM_KEY"
IsNameSemKeyFbom(config, e) ==
  \E p \in 1..Len(config.CFG_FTYPE) :
     /\ BelongsToNameSemKey(config.CFG_FTYPE[p])
     /\ config.CFG_FTYPE[p].FTYPE_ID = e.FTYPE_ID

\* C18: in the configuration create_name_sem_key_feature returns, every
\* entry of CFG_FTYPE, CFG_ATTR and CFG_FBOM that was there before and does
\* not belong to NAME_SEM_KEY is still there unmodified, and the
\* NAME_SEM_KEY feature type created or updated has USED_FOR_CAND "Yes" and
\* SHOW_IN_MATCH_KEY "No".
SemanticValueSettingsUnchanged ==
  new_config_json.kind = "config" =>
    LET old == current_config_json
        new == new_config_json.config
        nsk == FirstFtype(new.CFG_FTYPE, "NAME_SEM_KEY")
    IN /\ new.keys = old.keys
       /\ Len(new.CFG_FTYPE) >= Len(old.CFG_FTYPE)
       /\ Len(new.CFG_ATTR) >= Len(old.CFG_ATTR)
       /\ Len(new.CFG_FBOM) >= Len(old.CFG_FBOM)
       /\ \A p \in 1..Len(old.CFG_FTYPE) :
            ~BelongsToNameSemKey(old.CFG_FTYPE[p]) => new.CFG_FTYPE[p] = old.CFG_FTYPE[p]
       /\ \A p \in 1..Len(old.CFG_ATTR) :
            ~BelongsToNameSemKey(old.CFG_ATTR[p]) => new.CFG_ATTR[p] = old.CFG_ATTR[p]
       /\ \A p \in 1..Len(old.CFG_FBOM) :
            ~IsNameSemKeyFbom(old, old.CFG_FBOM[p]) => new.CFG_FBOM[p] = old.CFG_FBOM[p]
       /\ nsk # 0
       /\ new.CFG_FTYPE[nsk].USED_FOR_CAND = "Yes"
       /\ new.CFG_FTYPE[nsk].SHOW_IN_MATCH_KEY = "No"

\* C18 witness: the feature type was created, with a copied attribute and a
\* copied CFG_FBOM entry, next to a feature type that is not SEMANTIC_VALUE.
SemanticValueSettingsUnchangedWitness ==
  /\ new_config_json.kind = "config"
  /\ Len(new_config_json.config.CFG_FTYPE) = Len(current_config_json.CFG_FTYPE) + 1
  /\ Len(new_config_json.config.CFG_ATTR) = Len(current_config_json.CFG_ATTR) + 1
  /\ Len(new_config_json.config.CFG_FBOM) = Len(current_config_json.CFG_FBOM) + 1
  /\ \E p \in 1..Len(current_config_json.CFG_FTYPE) :
       current_config_json.CFG_FTYPE[p].FTYPE_CODE = "NAME"


\* The keys of Keys that end in NAME_ORG or NAME_FULL when upper-cased.
NameKeys == Keys \ {NAME_FULL \o <<"_", "2">>}

\* The rows looked up for entry e: those of its name when it is a non-empty
\* string under a name key.
RowsFor(e) ==
  IF e.kind = "str" /\ e.key \in NameKeys /\ e.str # "" THEN rows[e.str] ELSE <<>>

\* The concatenation of the sequences of ss from position p on.
RECURSIVE Concatenation(_, _)
Concatenation(ss, p) == IF p > Len(ss) THEN <<>> ELSE ss[p] \o Concatenation(ss, p + 1)

\* The rows of every lookup for the record, in depth-first key order.
LookupRows ==
  Concatenation(
    [p \in 1..Len(record) |->
       IF record[p].kind = "dict"
         THEN Concatenation([q \in 1..Len(record[p].dict) |-> RowsFor(record[p].dict[q])], 1)
         ELSE RowsFor(record[p])], 1)

\* C15: the block attached under _FORCED_CANDIDATES lists exactly the
\* (DATA_SOURCE, RECORD_ID) pairs the lookups returned, in their order,
\* concatenated in depth-first key order; when they returned no rows the
\* record goes out as it came in, with no block.
ForcedCandidatesAreLookupRows ==
  searched.sent =>
    /\ searched.record = record
    /\ searched.attached = (LookupRows # <<>>)
    /\ Len(searched.block.RECORDS) = Len(LookupRows)
    /\ \A i \in 1..Len(LookupRows) :
         /\ searched.block.RECORDS[i].DATA_SOURCE = LookupRows[i][1]
         /\ searched.block.RECORDS[i].RECORD_ID = LookupRows[i][2]

\* C15 witness: one lookup returned three rows and the block has exactly
\* three entries; the record also holds an object and a key that only
\* starts with NAME_FULL.
ForcedCandidatesAreLookupRowsWitness ==
  /\ searched.sent
  /\ searched.attached
  /\ Len(searched.block.RECORDS) = 3
  /\ \E p \in 1..Len(record) : record[p].kind = "str" /\ RowsFor(record[p]) = LookupRows
  /\ \E p \in 1..Len(record) : record[p].kind = "dict" /\ record[p].key \notin NameKeys


\* C14: a worker that cannot open its connection is fatal to the loader as
\* it is to the search: once a connection has failed no further line is
\* submitted and the process ends with a non-zero exit status.
ConnectionFailureIsFatal ==
  /\ [](connFailed # {} /\ pc = "exited" => exitStatus # 0)
  /\ [][connFailed # {} => submitted' = submitted]_vars


\* The number of samples of the history s at or under the one-second
\* threshold.
AtOrUnderOneSecond(s) == Cardinality({i \in 1..Len(s) : s[i][1] <= 1})

\* C21: for every completed history with count >= 1 the "Percent under 1s"
\* figure, (count - i) / count, is the number of samples whose latency is at
\* or under one second divided by the number of samples, also when no sample
\* or every sample is over the threshold.
PercentUnderIsShareAtOrUnder ==
  report.printed =>
    /\ count >= 1
    /\ count = Len(timesAll)
    /\ report.under = AtOrUnderOneSecond(timesAll)

\* A report on a history of several samples, every one over one second: the
\* scan ran to the end of the list.
PercentUnderIsShareAtOrUnderWitness ==
  /\ report.printed
  /\ count >= 2
  /\ \A i \in 1..Len(timesAll) : timesAll[i][1] > 1
  /\ report.under = 0


\* C22: a periodic report is emitted exactly when numLines reaches a
\* positive multiple of INTERVAL: after N drained units floor(N / INTERVAL)
\* reports have been emitted, each emitted by the drain that brings numLines
\* to a multiple, and every such drain emits exactly one.
PeriodicReportPerInterval ==
  /\ [](reports = numLines \div INTERVAL)
  /\ [][reports' # reports =>
          /\ numLines' = numLines + 1
          /\ numLines' > 0
          /\ numLines' % INTERVAL = 0
          /\ reports' = reports + 1]_vars
  /\ [][numLines' # numLines /\ numLines' % INTERVAL = 0 =>
          reports' = reports + 1]_vars

\* The loop has drained one unit more than a multiple of INTERVAL and the
\* multiple has had its one report.
PeriodicReportPerIntervalWitness ==
  /\ numLines > INTERVAL
  /\ numLines % INTERVAL = 1
  /\ reports = numLines \div INTERVAL
  /\ reports >= 1


\* C23: semantic_load: when every unit has finished and none failed, the
\* shared counter records_left is 0: every increment of the submitting
\* thread is matched by one decrement of a worker and no update is lost,
\* whatever the interleaving of the main thread and the workers.
RecordsLeftZeroAtEnd ==
  pc = "exited" /\ exitStatus = 0 /\ logged = {} => records_left = 0


\* The histories that hold the samples of s in some completion order.
CompletionOrders(s) ==
  {[i \in 1..Len(s) |-> s[f[i]]] :
     f \in {g \in [1..Len(s) -> 1..Len(s)] :
              \A i, j \in 1..Len(s) : g[i] = g[j] => i = j}}

\* What the loop and the final report make of the history s, drained in
\* its order: the aggregates, and the latencies the report prints.
AggregatesOver(s) ==
  [count |-> Len(s),
   timeTot |-> 0 + TimeTotOver(s, 1, Len(s)),
   timeMin |-> TimeMinOver(s, 1, Len(s))[0],
   timeMax |-> Max(0, TimeMaxOver(s, 1, Len(s)))]

ReportedLatencies(s) ==
  IF s = <<>> THEN <<>>
  ELSE LET r == ReportOf(SortDesc(s))
       IN <<r.longest, r.p99, r.p95, r.p90>>

\* C24: the final aggregates do not depend on the order in which the units
\* complete: when the loop has ended, any other completion order of the
\* same samples, zero latencies included, gives the same count, sum, min and
\* max and the same worst, p99, p95 and p90 latencies.
AggregatesIgnoreCompletionOrder ==
  pc = "final" =>
    \A s \in CompletionOrders(timesAll) :
      /\ AggregatesOver(s) = [count |-> count, timeTot |-> timeTot,
                              timeMin |-> timeMin, timeMax |-> timeMax]
      /\ ReportedLatencies(s) = ReportedLatencies(timesAll)

\* What of C24 does hold: every aggregate but timeMin is the same for every
\* completion order.
AggregatesButMinIgnoreCompletionOrder ==
  pc = "final" =>
    \A s \in CompletionOrders(timesAll) :
      /\ AggregatesOver(s).count = count
      /\ AggregatesOver(s).timeTot = timeTot
      /\ AggregatesOver(s).timeMax = timeMax
      /\ ReportedLatencies(s) = ReportedLatencies(timesAll)


\* C25: for every count >= 1 the final report reads only positions inside
\* the history: the percentile indices satisfy p99 <= p95 <= p90 < count,
\* each percentile printed is the latency at its index of the history
\* sorted by latency descending, and so the values printed satisfy
\* worst >= p99 >= p95 >= p90.
PercentileIndicesInRange ==
  report.printed =>
    /\ count >= 1
    /\ count = Len(timesAll)
    /\ 0 <= P99Index(count)
    /\ P99Index(count) <= P95Index(count)
    /\ P95Index(count) <= P90Index(count)
    /\ P90Index(count) < count
    /\ OverOneSecond(timesAll, 0) <= count
    /\ report.longest = timesAll[1][1]
    /\ report.p99 # -1 => /\ report.p99 = timesAll[P99Index(count) + 1][1]
                          /\ report.longest >= report.p99
    /\ report.p95 # -1 => /\ report.p95 = timesAll[P95Index(count) + 1][1]
                          /\ report.longest >= report.p95
                          /\ report.p99 # -1 => report.p99 >= report.p95
    /\ report.p90 # -1 => /\ report.p90 = timesAll[P90Index(count) + 1][1]
                          /\ report.longest >= report.p90
                          /\ report.p95 # -1 => report.p95 >= report.p90
                          /\ report.p99 # -1 => report.p99 >= report.p90

\* A first report on a history long enough for three distinct indices, with
\* three different percentile latencies printed.
PercentileIndicesInRangeWitness ==
  /\ pc = "exited"
  /\ report.printed
  /\ 1 <= P99Index(count)
  /\ P99Index(count) < P95Index(count)
  /\ P95Index(count) < P90Index(count)
  /\ report.longest >= report.p99
  /\ report.p99 > report.p95
  /\ report.p95 > report.p90
  /\ report.p90 >= 0


\* C26: in every state of the orchestration loop count equals numLines,
\* every drained unit having contributed a sample; so the drain that prints
\* a periodic report has count >= 1 for its average timeTot / count.
CountIsNumLines ==
  /\ [](count = numLines)
  /\ [][reports' # reports => count' >= 1 /\ count' = numLines']_vars

\* The drain that brought numLines to a multiple of INTERVAL has just
\* printed its periodic report.
CountIsNumLinesWitness ==
  /\ pc \in {"wait", "drain", "final"}
  /\ numLines > 0
  /\ numLines % INTERVAL = 0
  /\ reports >= 1
  /\ count = numLines


\* A configuration as the engine exports it: no two feature types share a
\* code or an id and no two attributes share an id.
WellFormed(config) ==
  /\ \A p, q \in 1..Len(config.CFG_FTYPE) :
       p # q => /\ config.CFG_FTYPE[p].FTYPE_CODE # config.CFG_FTYPE[q].FTYPE_CODE
                /\ config.CFG_FTYPE[p].FTYPE_ID # config.CFG_FTYPE[q].FTYPE_ID
  /\ \A p, q \in 1..Len(config.CFG_ATTR) :
       p # q => config.CFG_ATTR[p].ATTR_ID # config.CFG_ATTR[q].ATTR_ID

\* C27: create_name_sem_key_feature is idempotent on a configuration that
\* contains SEMANTIC_VALUE: applied to its own output it hands back the same
\* configuration, so the second application adds no feature type, attribute
\* or FBOM entry; the output has exactly one feature type NAME_SEM_KEY,
\* whose FTYPE_ID no other feature type has, and no ATTR_ID twice.
CreateNameSemKeyIdempotent ==
  pc = "modified again" /\ WellFormed(store.configs[1]) =>
    LET once == current_config_json
        twice == new_config_json
    IN /\ twice = Returned(once)
       /\ Len(twice.config.CFG_FTYPE) = Len(once.CFG_FTYPE)
       /\ Len(twice.config.CFG_ATTR) = Len(once.CFG_ATTR)
       /\ Len(twice.config.CFG_FBOM) = Len(once.CFG_FBOM)
       /\ Cardinality({p \in 1..Len(once.CFG_FTYPE) :
                         once.CFG_FTYPE[p].FTYPE_CODE = "NAME_SEM_KEY"}) = 1
       /\ \A p, q \in 1..Len(once.CFG_FTYPE) :
            p # q /\ once.CFG_FTYPE[p].FTYPE_CODE = "NAME_SEM_KEY" =>
              once.CFG_FTYPE[p].FTYPE_ID # once.CFG_FTYPE[q].FTYPE_ID
       /\ \A p, q \in 1..Len(once.CFG_ATTR) :
            p # q => once.CFG_ATTR[p].ATTR_ID # once.CFG_ATTR[q].ATTR_ID

\* The first application created NAME_SEM_KEY with a copied attribute and a
\* copied FBOM entry, and the second has been applied to that output.
CreateNameSemKeyIdempotentWitness ==
  /\ pc = "modified again"
  /\ WellFormed(store.configs[1])
  /\ FirstFtype(store.configs[1].CFG_FTYPE, "NAME_SEM_KEY") = 0
  /\ Len(current_config_json.CFG_FTYPE) = Len(store.configs[1].CFG_FTYPE) + 1
  /\ Len(current_config_json.CFG_ATTR) > Len(store.configs[1].CFG_ATTR)
  /\ Len(current_config_json.CFG_FBOM) > Len(store.configs[1].CFG_FBOM)
  /\ new_config_json = Returned(current_config_json)


\* The units a worker of the loader is running.
LoadRunning == {w \in Threads : worker[w] # 0}

====
